---- MODULE Spec2Model ----
(***************************************************************************)
(* A model of the geodesic length pipeline of rust-geo:                    *)
(*   geo-types/src/line.rs            Line and its derived quantities      *)
(*   geo-types/src/line_string.rs     LineString::lines                    *)
(*   geo/src/algorithm/vincenty_length.rs                                  *)
(*                                    VincentyLength for Line, LineString  *)
(*                                    and MultiLineString                  *)
(* The Vincenty solver itself (algorithm/vincenty_distance.rs) is not part *)
(* of the sources at hand.  It is a pure function of two points; the model *)
(* keeps it as an unknown function whose value on a pair of points is      *)
(* fixed the first time that pair is passed to it, within what section 4.1 *)
(* of the specification says of it (zero for coincident points, the same   *)
(* distance in both directions).                                           *)
(***************************************************************************)
EXTENDS Integers, Sequences, FiniteSets, TLC

\* ------------------------------------------------------------- bounds
\* Coordinates of the segments handed to determinant() and slope() range
\* over -MaxCoord..MaxCoord in both components.
MaxCoord == 2
\* Longest path (number of coordinates) given to lines() and to
\* LineString::vincenty_length.
MaxPoints == 3
\* Most paths in a MultiLineString.
MaxPaths == 2
\* Most coordinates in a MultiLineString, all its paths together.
MaxMultiPoints == 4
\* Converged distances range over 0..MaxDist.
MaxDist == 2
\* Most calls of lines() on one path in a run.
MaxCalls == 2

\* ------------------------------------------------------------- values
Coordinate(x, y) == [x |-> x, y |-> y]

\* Point(pub Coordinate): a wrapper around one coordinate.
Point(c) == [p |-> c]

Coords == {Coordinate(x, y) : x \in -MaxCoord..MaxCoord, y \in -MaxCoord..MaxCoord}

\* The coordinates paths are built from: (longitude, latitude) pairs.
GeoCoords == {Coordinate(0, 0), Coordinate(1, 0), Coordinate(0, 1)}

\* Result<T, FailedToConvergeError>
Ok(d) == [tag |-> "Ok", val |-> d]
Err == [tag |-> "Err", val |-> 0]
\* No value returned yet.
Pending == [tag |-> "Pending", val |-> 0]

\* Option<Line<T>>
Some(l) == [some |-> TRUE, item |-> <<l>>]
None == [some |-> FALSE, item |-> <<>>]

\* What the solver can return.
Outcomes == {Err} \cup {Ok(d) : d \in 0..MaxDist}

Paths == UNION {[1..k -> GeoCoords] : k \in 0..MaxPoints}
\* The sequences of at most k paths that hold at most n coordinates together.
RECURSIVE MultiPathsOf(_, _)
MultiPathsOf(k, n) ==
    IF k = 0 THEN {<<>>}
    ELSE {<<>>} \cup
         UNION {{<<p>> \o m : m \in MultiPathsOf(k - 1, n - Len(p))} :
                p \in {q \in Paths : Len(q) <= n}}

MultiPaths == MultiPathsOf(MaxPaths, MaxMultiPoints)

VARIABLES
    op,          \* the entry point this run exercises
    pc,          \* position of the run: "idle", "ls_loop", "mls_loop", "done"
    line,        \* the Line receiver
    ls,          \* the LineString receiver (LineString.0)
    mls,         \* the MultiLineString receiver (MultiLineString.0)
    iter,        \* the iterator returned by lines(): [live, v], v the slice left
    yielded,     \* the segments the current iterator has yielded
    exhausted,   \* the current iterator has returned None
    runs,        \* the full sequences yielded by the iterators run to their end
    ncalls,      \* calls of lines() made
    length,      \* `length` of LineString::vincenty_length
    mlength,     \* `length` of MultiLineString::vincenty_length
    pathIdx,     \* position of MultiLineString::vincenty_length in self.0
    pathResults, \* what each LineString::vincenty_length call returned
    solver,      \* the solver's value on the pairs it has been asked about
    calls,       \* the solver invocations, in order, each with what it returned
    result,      \* the value the entry point returned
    given        \* the receivers as the run was given them

vars == <<op, pc, line, ls, mls, iter, yielded, exhausted, runs, ncalls, length,
          mlength, pathIdx, pathResults, solver, calls, result, given>>

\* ------------------------------------------------------------- Line (line.rs)
Line_new(start, end) == [start |-> start, end |-> end]

dx(self) == self.end.x - self.start.x

dy_sum(self) == self.end.y + self.start.y
dy(self) == self.end.y - self.start.y

\* T is a floating-point type.  Coordinates here are small integers, which
\* it represents exactly; a quotient is kept as the fraction in lowest
\* terms with a positive denominator, and division by zero gives what IEEE
\* 754 gives: an infinity <<1, 0>> or <<-1, 0>>, or NaN <<0, 0>>.
RECURSIVE Gcd(_, _)
Gcd(m, n) == IF n = 0 THEN m ELSE Gcd(n, m % n)

Abs(n) == IF n < 0 THEN -n ELSE n
Sign(n) == IF n < 0 THEN -1 ELSE IF n > 0 THEN 1 ELSE 0

Div(p, q) ==
    IF q = 0 THEN <<Sign(p), 0>>
    ELSE LET g == Gcd(Abs(p), Abs(q))
         IN  <<(Sign(q) * p) \div g, Abs(q) \div g>>

NaN == <<0, 0>>
\* Unary minus and == of the floating-point type.
Neg(f) == <<-f[1], f[2]>>
FloatEq(f, g) == f # NaN /\ g # NaN /\ f = g

slope(self) == Div(dy(self), dx(self))

determinant_plus(self) == self.start.x * self.end.y + self.start.y * self.end.x
determinant(self) == self.start.x * self.end.y - self.start.y * self.end.x

start_point(self) == Point(self.start)
end_point(self) == Point(self.end)
points(self) == <<start_point(self), end_point(self)>>

\* Line::to_points, which Line::vincenty_length calls, is not defined in
\* line.rs: each endpoint reinterpreted as a Point, start first.
to_points(self) == <<Point(self.start), Point(self.end)>>

\* ------------------------------------------------------------- LineString::lines
\* slice::windows(2): the iterator holds the slice that is left.
windows_resumed(self) == IF iter.live THEN iter ELSE [live |-> TRUE, v |-> self]
windows(self) == [live |-> TRUE, v |-> self]

\* The closure of lines(): |w| Line::new(w[0], w[1]).
lines_closure_same(w) == Line_new(w[1], w[1])
lines_closure(w) == Line_new(w[1], w[2])

\* Windows::next mapped through the closure: None once fewer than two
\* coordinates are left, else the segment of the first two, and the slice
\* loses its first coordinate.  ret is what next() returns, it the iterator
\* afterwards.
lines_next(it) ==
    IF 2 > Len(it.v)
    THEN [ret |-> None, it |-> it]
    ELSE [ret |-> Some(lines_closure(SubSeq(it.v, 1, 2))),
          it |-> [it EXCEPT !.v = Tail(it.v)]]

\* LineString::lines
lines(self) == windows(self)

NoIter == [live |-> FALSE, v |-> <<>>]


\* ------------------------------------------------------------- the solver
\* Point::vincenty_distance is asked about <<p1, p2>> and answers o: the same
\* outcome again for a pair it has seen, in either order; zero for two
\* coincident points; any outcome otherwise.
SolverAnswers(args, o) ==
    /\ args \in DOMAIN solver => solver[args] = o
    /\ <<args[2], args[1]>> \in DOMAIN solver => solver[<<args[2], args[1]>>] = o
    /\ args[1] = args[2] => o = Ok(0)

Asked(args, o) == (args :> o) @@ solver

\* ------------------------------------------------------------- VincentyLength
\* Line::vincenty_length: the arguments of start.vincenty_distance(&end).
solver_args_swapped(self) == <<to_points(self)[2], to_points(self)[1]>>
solver_args(self) == <<to_points(self)[1], to_points(self)[2]>>

\* let mut length = T::zero();
LineString_length_init_one == 0 + 1
LineString_length_init == 0

\* length + line.vincenty_length(): the Result is added as it is, without `?`.
\* A converged distance adds its value.  The source gives a failure no value
\* and no way out of the loop, so a failure adds an arbitrary number.
Addends(r) == IF r.tag = "Ok" THEN {r.val} ELSE 0..MaxDist

LineString_assign(len, add) == add
LineString_add(len, add) == len + add

\* length + line_string.vincenty_length()?
MultiLineString_add(len, add) == len + add

\* ------------------------------------------------------------- Init
Quiet ==
    /\ pc = "idle"
    /\ iter = NoIter
    /\ yielded = <<>>
    /\ exhausted = FALSE
    /\ runs = <<>>
    /\ ncalls = 0
    /\ length = 0
    /\ mlength = 0
    /\ pathIdx = 0
    /\ pathResults = <<>>
    /\ solver = <<>>
    /\ calls = <<>>
    /\ result = Pending

NoLine == Line_new(Coordinate(0, 0), Coordinate(0, 0))

InitLine ==
    /\ op = "Line"
    /\ \E a \in Coords, b \in Coords : line = Line_new(a, b)
    /\ ls = <<>>
    /\ mls = <<>>
    /\ Quiet

InitLineLength ==
    /\ op = "Line::vincenty_length"
    /\ \E a \in GeoCoords, b \in GeoCoords : line = Line_new(a, b)
    /\ ls = <<>>
    /\ mls = <<>>
    /\ Quiet

InitLines ==
    /\ op = "LineString::lines"
    /\ line = NoLine
    /\ ls \in Paths
    /\ mls = <<>>
    /\ Quiet

InitLineString ==
    /\ op = "LineString::vincenty_length"
    /\ line = NoLine
    /\ ls \in Paths
    /\ mls = <<>>
    /\ Quiet

InitMultiLineString ==
    /\ op = "MultiLineString::vincenty_length"
    /\ line = NoLine
    /\ ls = <<>>
    /\ mls \in MultiPaths
    /\ Quiet

Init ==
    /\ \/ InitLine
       \/ InitLineLength
       \/ InitLines
       \/ InitLineString
       \/ InitMultiLineString
    /\ given = [line |-> line, ls |-> ls, mls |-> mls]

\* ------------------------------------------------------------- actions
\* Line::new(a, b).determinant() and Line::new(b, a).determinant(), as the
\* documentation test of determinant() evaluates them.
Determinant ==
    /\ op = "Line"
    /\ pc = "idle"
    /\ result' = [tag |-> "determinant",
                  ab |-> determinant(Line_new(line.start, line.end)),
                  ba |-> determinant(Line_new(line.end, line.start))]
    /\ pc' = "done"
    /\ UNCHANGED <<given, op, line, ls, mls, iter, yielded, exhausted, runs, ncalls,
                   length, mlength, pathIdx, pathResults, solver, calls>>

\* Line::new(a, b).slope() and Line::new(b, a).slope(), as the documentation
\* test of slope() evaluates them.
Slope ==
    /\ op = "Line"
    /\ pc = "idle"
    /\ result' = [tag |-> "slope",
                  ab |-> slope(Line_new(line.start, line.end)),
                  ba |-> slope(Line_new(line.end, line.start))]
    /\ pc' = "done"
    /\ UNCHANGED <<given, op, line, ls, mls, iter, yielded, exhausted, runs, ncalls,
                   length, mlength, pathIdx, pathResults, solver, calls>>

\* Line::vincenty_length
LineVincentyLength ==
    /\ op = "Line::vincenty_length"
    /\ pc = "idle"
    /\ \E o \in Outcomes :
          /\ SolverAnswers(solver_args(line), o)
          /\ solver' = Asked(solver_args(line), o)
          /\ calls' = Append(calls, [args |-> solver_args(line), ret |-> o])
          /\ result' = o
    /\ pc' = "done"
    /\ UNCHANGED <<given, op, line, ls, mls, iter, yielded, exhausted, runs, ncalls,
                   length, mlength, pathIdx, pathResults>>

\* A caller of lines(): line_string.lines(), at any time, the iterator of an
\* earlier call fully, partly or not at all consumed.
LinesCall ==
    /\ op = "LineString::lines"
    /\ ncalls < MaxCalls
    /\ iter' = lines(ls)
    /\ yielded' = <<>>
    /\ exhausted' = FALSE
    /\ ncalls' = ncalls + 1
    /\ UNCHANGED <<given, op, pc, line, ls, mls, runs, length, mlength, pathIdx,
                   pathResults, solver, calls, result>>

\* The caller's lines.next().
LinesNext ==
    /\ op = "LineString::lines"
    /\ iter.live
    /\ LET n == lines_next(iter)
       IN  /\ iter' = n.it
           /\ yielded' = IF n.ret.some THEN Append(yielded, n.ret.item[1]) ELSE yielded
           /\ exhausted' = ~n.ret.some
           /\ runs' = IF ~n.ret.some /\ ~exhausted THEN Append(runs, yielded) ELSE runs
    /\ UNCHANGED <<given, op, pc, line, ls, mls, ncalls, length, mlength, pathIdx,
                   pathResults, solver, calls, result>>

\* LineString::vincenty_length called by the run itself: the accumulator is
\* set up and the for loop takes self.lines().
LineStringEnter ==
    /\ op = "LineString::vincenty_length"
    /\ pc = "idle"
    /\ length' = LineString_length_init
    /\ iter' = lines(ls)
    /\ pc' = "ls_loop"
    /\ UNCHANGED <<given, op, line, ls, mls, yielded, exhausted, runs, ncalls, mlength,
                   pathIdx, pathResults, solver, calls, result>>

\* One round of the for loop of LineString::vincenty_length: the next segment,
\* its vincenty_length, the addition.
LineStringStep ==
    /\ pc = "ls_loop"
    /\ lines_next(iter).ret.some
    /\ LET n == lines_next(iter)
           seg == n.ret.item[1]
       IN  /\ iter' = n.it
           /\ line' = seg
           /\ \E o \in Outcomes :
                 /\ SolverAnswers(solver_args(seg), o)
                 /\ solver' = Asked(solver_args(seg), o)
                 /\ calls' = Append(calls, [args |-> solver_args(seg), ret |-> o])
                 /\ \E add \in Addends(o) : length' = LineString_add(length, add)
    /\ UNCHANGED <<given, op, pc, ls, mls, yielded, exhausted, runs, ncalls, mlength,
                   pathIdx, pathResults, result>>

\* The for loop of LineString::vincenty_length is over: Ok(length) is
\* returned, to the run itself or into `?` of MultiLineString::vincenty_length,
\* which returns a failure at once and adds a value to its own length.
LineStringReturn ==
    /\ pc = "ls_loop"
    /\ ~lines_next(iter).ret.some
    /\ LET r == Ok(length)
       IN  /\ pathResults' = Append(pathResults, r)
           /\ IF op = "LineString::vincenty_length"
              THEN /\ result' = r
                   /\ pc' = "done"
                   /\ UNCHANGED <<mlength, pathIdx>>
              ELSE IF r.tag = "Err"
              THEN /\ result' = r
                   /\ pc' = "done"
                   /\ UNCHANGED <<mlength, pathIdx>>
              ELSE /\ mlength' = MultiLineString_add(mlength, r.val)
                   /\ pathIdx' = pathIdx + 1
                   /\ pc' = "mls_loop"
                   /\ UNCHANGED result
    /\ iter' = NoIter
    /\ UNCHANGED <<given, op, line, ls, mls, yielded, exhausted, runs, ncalls, length,
                   solver, calls>>

\* MultiLineString::vincenty_length is called.
MultiLineStringEnter ==
    /\ op = "MultiLineString::vincenty_length"
    /\ pc = "idle"
    /\ mlength' = 0
    /\ pathIdx' = 1
    /\ pc' = "mls_loop"
    /\ UNCHANGED <<given, op, line, ls, mls, iter, yielded, exhausted, runs, ncalls,
                   length, pathResults, solver, calls, result>>

\* for line_string in &self.0: the next path's vincenty_length is called.
MultiLineStringStep ==
    /\ pc = "mls_loop"
    /\ pathIdx <= Len(mls)
    /\ ls' = mls[pathIdx]
    /\ length' = LineString_length_init
    /\ iter' = lines(mls[pathIdx])
    /\ pc' = "ls_loop"
    /\ UNCHANGED <<given, op, line, mls, yielded, exhausted, runs, ncalls, mlength,
                   pathIdx, pathResults, solver, calls, result>>

\* The paths are used up: Ok(length).
MultiLineStringReturn ==
    /\ pc = "mls_loop"
    /\ pathIdx > Len(mls)
    /\ result' = Ok(mlength)
    /\ pc' = "done"
    /\ UNCHANGED <<given, op, line, ls, mls, iter, yielded, exhausted, runs, ncalls,
                   length, mlength, pathIdx, pathResults, solver, calls>>

Next ==
    \/ Determinant
    \/ Slope
    \/ LineVincentyLength
    \/ LinesCall
    \/ LinesNext
    \/ LineStringEnter
    \/ LineStringStep
    \/ LineStringReturn
    \/ MultiLineStringEnter
    \/ MultiLineStringStep
    \/ MultiLineStringReturn

Spec == Init /\ [][Next]_vars

\* ------------------------------------------------------------- expectations
\* The consecutive pairs of a path, in order: what the claims expect of
\* lines(), stated without it.
SegsOf(p) ==
    IF Len(p) < 2 THEN <<>>
    ELSE [i \in 1..(Len(p) - 1) |-> [start |-> p[i], end |-> p[i + 1]]]

\* The solver arguments a segment calls for: its endpoints as Points, start first.
ArgsOf(seg) == <<[p |-> seg.start], [p |-> seg.end]>>

RECURSIVE Flatten(_)
Flatten(ss) == IF ss = <<>> THEN <<>> ELSE Head(ss) \o Flatten(Tail(ss))

\* The segments of all paths of a MultiLineString: path order, then segment order.
AllSegsOf(m) == Flatten([i \in DOMAIN m |-> SegsOf(m[i])])

RECURSIVE SumVals(_)
SumVals(rs) == IF rs = <<>> THEN 0 ELSE Head(rs).val + SumVals(Tail(rs))

Rets(cs) == [i \in DOMAIN cs |-> cs[i].ret]

Failed(cs) == {i \in DOMAIN cs : cs[i].ret.tag = "Err"}

\* The solver has converged on every segment of the sequence.
Converges(segs) ==
    \A i \in DOMAIN segs :
        ArgsOf(segs[i]) \in DOMAIN solver /\ solver[ArgsOf(segs[i])].tag = "Ok"

\* The sum of the solver's distances over the segments, from zero, in order.
Distances(segs) == SumVals([i \in DOMAIN segs |-> solver[ArgsOf(segs[i])]])

IsPrefix(s, t) == Len(s) <= Len(t) /\ s = SubSeq(t, 1, Len(s))

InLineString == op = "LineString::vincenty_length"
InMulti == op = "MultiLineString::vincenty_length"

\* ------------------------------------------------------------- claims

\* C1: when the solver converges on every consecutive pair of a path,
\* LineString::vincenty_length returns Ok of the sum of the segments'
\* distances, accumulated from zero in segment order (the accumulator holds
\* the sum of the distances so far after every round), and never a failure.
C1_PathLengthIsSum ==
    InLineString =>
        /\ (pc = "ls_loop" /\ Failed(calls) = {}) => length = SumVals(Rets(calls))
        /\ (pc = "done" /\ Converges(SegsOf(ls))) =>
              /\ result = Ok(Distances(SegsOf(ls)))
              /\ [i \in DOMAIN calls |-> calls[i].args]
                    = [i \in DOMAIN SegsOf(ls) |-> ArgsOf(SegsOf(ls)[i])]

\* C1 witness: a 3-point path, two segments of distances d1, d2 > 0, done.
C1_Witness ==
    /\ InLineString
    /\ pc = "done"
    /\ Len(ls) = 3
    /\ Len(calls) = 2
    /\ Failed(calls) = {}
    /\ calls[1].ret.val = 1
    /\ calls[2].ret.val = 2
    /\ result = Ok(3)

\* C2: if the solver fails on a segment of a path, LineString::vincenty_length
\* returns the failure and no number, and the failing call is the last call
\* it makes.
C2_AbortsAtFirstFailure ==
    (InLineString /\ pc = "done" /\ Failed(calls) # {}) =>
        /\ result = Err
        /\ Failed(calls) = {Len(calls)}

\* C3: for a path of 0 or 1 points LineString::vincenty_length never invokes
\* the solver and returns Ok(0), called by the run itself or for a path of a
\* MultiLineString.
C3_DegeneratePathIsZero ==
    /\ (InLineString /\ Len(ls) <= 1) =>
          /\ calls = <<>>
          /\ result \in {Pending, Ok(0)}
          /\ pc = "done" => result = Ok(0)
    /\ InMulti =>
          \A i \in DOMAIN pathResults : Len(mls[i]) <= 1 => pathResults[i] = Ok(0)

\* C3 witness: a 1-point path, done.
C3_Witness == InLineString /\ pc = "done" /\ Len(ls) = 1 /\ result = Ok(0)

\* C4: MultiLineString::vincenty_length returns Ok of the sum of its paths'
\* lengths when the solver converges on all their segments, and fails when
\* the length of one of its paths fails.
C4_MultiLengthIsSumOrFails ==
    (InMulti /\ pc = "done") =>
        IF Failed(calls) # {}
        THEN result = Err
        ELSE result = Ok(Distances(AllSegsOf(mls)))

\* C5: the solver calls of MultiLineString::vincenty_length are a prefix of
\* its segments in path order then segment order, which ends at the first
\* call that fails, and that failure is what it returns.
C5_CallsStopAtFirstFailure ==
    InMulti =>
        /\ IsPrefix([i \in DOMAIN calls |-> calls[i].args],
                    [i \in DOMAIN AllSegsOf(mls) |-> ArgsOf(AllSegsOf(mls)[i])])
        /\ Failed(calls) \subseteq {Len(calls)}
        /\ (pc = "done" /\ Failed(calls) # {}) => result = Err

NSegs(p) == IF Len(p) >= 2 THEN Len(p) - 1 ELSE 0

\* C6: lines() on a path of N points yields N-1 segments when N >= 2 and
\* none when N < 2; the i-th has start = point i and end = point i+1, so each
\* segment's end is the next one's start; next() is None exactly when all of
\* them have been yielded, and stays None.
C6_LinesYieldsConsecutivePairs ==
    (op = "LineString::lines" /\ iter.live) =>
        /\ Len(yielded) <= NSegs(ls)
        /\ \A i \in DOMAIN yielded :
              yielded[i].start = ls[i] /\ yielded[i].end = ls[i + 1]
        /\ \A i \in 1..(Len(yielded) - 1) : yielded[i].end = yielded[i + 1].start
        /\ lines_next(iter).ret.some <=> Len(yielded) < NSegs(ls)
        /\ exhausted => Len(yielded) = NSegs(ls) /\ ~lines_next(iter).ret.some

\* C6 witness: a 3-point path of distinct neighbours, run to None.
C6_Witness ==
    /\ op = "LineString::lines"
    /\ exhausted
    /\ Len(ls) = 3
    /\ ls[1] # ls[2]
    /\ ls[2] # ls[3]
    /\ Len(yielded) = 2

\* C7: lines() leaves the path as it was given, and every call of it, after
\* any number of earlier calls consumed fully or partly, starts again at the
\* first segment: what the current iterator has yielded and has yet to yield
\* is the full sequence of the path's segments, and so is every completed run.
C7_LinesRestartsFromPath ==
    op = "LineString::lines" =>
        /\ ls = given.ls
        /\ iter.live => yielded \o SegsOf(iter.v) = SegsOf(ls)
        /\ \A i \in DOMAIN runs : runs[i] = SegsOf(ls)

\* C7 witness: the second call of lines() on a 3-point path, run to its end
\* after the first was.
C7_Witness ==
    /\ op = "LineString::lines"
    /\ ncalls = 2
    /\ Len(runs) = 2
    /\ Len(ls) = 3
    /\ Len(runs[2]) = 2

\* C8: Line::new(a, b).determinant() == -Line::new(b, a).determinant().
C8_DeterminantAntisymmetric ==
    (op = "Line" /\ result.tag = "determinant") => result.ab = -result.ba

\* C8 witness: a segment whose determinant is not zero.
C8_Witness == op = "Line" /\ result.tag = "determinant" /\ result.ab # 0

\* C9 as claimed: for a.x # b.x,
\* Line::new(a, b).slope() == -Line::new(b, a).slope().
C9_SlopeChangesSign ==
    (op = "Line" /\ result.tag = "slope" /\ line.start.x # line.end.x) =>
        FloatEq(result.ab, Neg(result.ba))

\* C9 as amended: for a.x # b.x,
\* Line::new(a, b).slope() == Line::new(b, a).slope().
C9_SlopeUnchangedBySwap ==
    (op = "Line" /\ result.tag = "slope" /\ line.start.x # line.end.x) =>
        FloatEq(result.ab, result.ba)

\* C9 witness: a segment that is neither vertical nor horizontal.
C9_Witness ==
    /\ op = "Line"
    /\ result.tag = "slope"
    /\ line.start.x # line.end.x
    /\ line.start.y # line.end.y

\* C10: Line::vincenty_length invokes the solver once, on (start, end) as
\* Points, returns what the solver returned, and leaves the segment as it was.
C10_LineLengthIsSolverResult ==
    op = "Line::vincenty_length" =>
        /\ line = given.line
        /\ pc = "idle" => calls = <<>> /\ result = Pending
        /\ pc = "done" =>
              /\ Len(calls) = 1
              /\ calls[1].args = ArgsOf(line)
              /\ result = calls[1].ret
              /\ result = solver[ArgsOf(line)]

\* C10 witness: a segment of two different points on which the solver fails.
C10_Witness ==
    /\ op = "Line::vincenty_length"
    /\ pc = "done"
    /\ line.start # line.end
    /\ result = Err

====
